---- MODULE Spec2Model ----
(***************************************************************************)
(* The gRPC peer pool of groupcache (grpc.go): the pool's ring and map of  *)
(* peer connections, and the membership operations, peer selection and     *)
(* snapshot that read and write them.                                      *)
(*                                                                         *)
(* Every pool operation locks gp.mu on entry and releases it on return     *)
(* (defer gp.mu.Unlock()).  Spec and SpecServe take each handler as one    *)
(* atomic action, their states being those in which the lock is not held;  *)
(* SpecLock runs Set and RemovePeers statement by statement against a      *)
(* reading goroutine, and SpecNew runs the constructor statement by        *)
(* statement for callers that share the unsynchronised grpcPoolCreated.    *)
(***************************************************************************)
EXTENDS Integers, Sequences, FiniteSets, TLC

VARIABLES
    \* the pool gp, the connections that were opened, and the last membership call
    self, grpcGetters, peers, conns, last,
    \* the registry of local groups, and the inbound Retrieve and Delete calls
    groups, retrieves, reply,
    \* the construct-once flag, the calls of NewGRPCPoolOptions, the pools they built,
    \* and the peer pickers and peer servers they registered
    grpcPoolCreated, calls, pools, portPicker, peerServers,
    \* gp.mu, the goroutine that changes the membership, the goroutines that select
    \* peers, and the ring and map as they were when a membership change last ended
    mu, writer, readers, committed

poolVars == <<self, grpcGetters, peers, conns, last>>
serveVars == <<groups, retrieves, reply>>
newVars == <<grpcPoolCreated, calls, pools, portPicker, peerServers>>
lockVars == <<mu, writer, readers, committed>>
vars == <<poolVars, serveVars, newVars, lockVars>>

(***************************************************************************)
(* Bounds of the model.                                                    *)
(***************************************************************************)
\* longest peer list passed to SetPeers, AddPeers, RemovePeers
MaxLen == 3
\* most connections dialed successfully in one run
MaxConns == 3
\* most inbound requests counted for one group
MaxRequests == 2
\* goroutines that call NewGRPCPoolOptions
MaxCallers == 2
\* membership calls made while PickPeer and GetAll run
MaxCalls == 2
\* opts.Replicas: positions of the ring per address
Replicas == 2
\* number of positions of the hash circle
RingSize == 9

\* the peer addresses, and the number each one hashes from
Addrs == {"A", "B", "C", "D"}
AddrCode(a) == CASE a = "A" -> 1 [] a = "B" -> 2 [] a = "C" -> 3 [] a = "D" -> 4
\* the addresses a pool is constructed with as self
Selfs == {"A"}
\* the addresses whose dial may fail
Flaky == {"A"}
\* a key is named by the position of the circle its hash falls on
Keys == 0 .. (RingSize - 1)

\* the nil *grpcGetter, and the address consistenthash.Map.Get gives on an empty ring
NilGetter == 0
NoPeer == ""

\* the peer lists of the calls: the addresses in ascending order, or one address twice
Ascending(l) == \A i \in 1 .. (Len(l) - 1) : AddrCode(l[i]) < AddrCode(l[i + 1])
PeerLists ==
    {l \in UNION {[1 .. n -> Addrs] : n \in 0 .. MaxLen} : Ascending(l)}
        \cup {<<a, a>> : a \in Addrs}

Range(f) == {f[x] : x \in DOMAIN f}
ToSet(s) == {s[i] : i \in 1 .. Len(s)}

(***************************************************************************)
(* consistenthash.Map: the ring. hashMap takes each position that was      *)
(* added to the address it was added for.                                  *)
(***************************************************************************)
Hash(n) == n % RingSize

\* the positions of the replicas of one address
Points(addr) ==
    {Hash(i * Cardinality(Addrs) + AddrCode(addr)) : i \in 0 .. (Replicas - 1)}

RingNew == [p \in {} |-> NoPeer]

RingAdd(ring, addr) ==
    LET pts == Points(addr)
    IN  [p \in (DOMAIN ring) \cup pts |-> IF p \in pts THEN addr ELSE ring[p]]

RingIsEmpty(ring) == DOMAIN ring = {}

\* the first position of the ring at or after p, wrapping around at the end of the circle
RECURSIVE FirstFrom(_, _)
FirstFrom(ring, p) ==
    IF p \in DOMAIN ring THEN p ELSE FirstFrom(ring, (p + 1) % RingSize)

\* the owner of a key: the address at the first position at or after the key's
RingGet(ring, key) ==
    IF RingIsEmpty(ring) THEN NoPeer ELSE ring[FirstFrom(ring, key)]

\* the addresses present in a ring
RingAddrs(ring) == Range(ring)

(***************************************************************************)
(* grpcGetter: conns[id] is the connection object with identity id.        *)
(***************************************************************************)
\* newGRPCGetter: grpc.Dial gives a new connection, or an error
newGRPCGetter(cs, address, dialOk) ==
    IF dialOk
    THEN [conns |-> Append(cs, [address |-> address, closed |-> FALSE]),
          getter |-> Len(cs) + 1, err |-> FALSE]
    ELSE [conns |-> cs, getter |-> NilGetter, err |-> TRUE]

\* grpcGetter.close
close(cs, g) == [cs EXCEPT ![g].closed = TRUE]

\* m[k] = v, delete(m, k) and m[k] of a Go map: a missing key reads as the nil getter
MapPut(m, k, v) == [x \in (DOMAIN m) \cup {k} |-> IF x = k THEN v ELSE m[x]]
MapDelete(m, k) == [x \in (DOMAIN m) \ {k} |-> m[x]]
MapIndex(m, k) == IF k \in DOMAIN m THEN m[k] ELSE NilGetter
EmptyMap == [x \in {} |-> NilGetter]

(***************************************************************************)
(* GRPCPool.Set                                                            *)
(***************************************************************************)
\* SetStep that leaves out gp.peers.Add(peer) for a getter it carries forward
SetStepNoRingAdd(st, peer, dialOk) ==
    IF peer \in DOMAIN st.old
    THEN [st EXCEPT !.temp = MapPut(@, peer, st.old[peer]),
                    !.old = MapDelete(@, peer)]
    ELSE LET d == newGRPCGetter(st.conns, peer, dialOk)
         IN  IF d.err
             THEN [st EXCEPT !.dials = @ + 1, !.failed = @ \cup {peer}]
             ELSE [st EXCEPT !.temp = MapPut(@, peer, d.getter),
                             !.ring = RingAdd(@, peer),
                             !.conns = d.conns,
                             !.dials = @ + 1]

\* one iteration of the loop over the new peer list; failed collects the addresses
\* whose dial gave an error, which the loop only logs
SetStep(st, peer, dialOk) ==
    IF peer \in DOMAIN st.old
    THEN [st EXCEPT !.temp = MapPut(@, peer, st.old[peer]),
                    !.ring = RingAdd(@, peer),
                    !.old = MapDelete(@, peer)]
    ELSE LET d == newGRPCGetter(st.conns, peer, dialOk)
         IN  IF d.err
             THEN [st EXCEPT !.dials = @ + 1, !.failed = @ \cup {peer}]
             ELSE [st EXCEPT !.temp = MapPut(@, peer, d.getter),
                             !.ring = RingAdd(@, peer),
                             !.conns = d.conns,
                             !.dials = @ + 1]

RECURSIVE SetLoop(_, _, _, _)
SetLoop(st, list, ok, i) ==
    IF i > Len(list) THEN st
    ELSE SetLoop(SetStep(st, list[i], ok[i]), list, ok, i + 1)

\* the second loop of Set: every getter left in the old map is closed
RECURSIVE closeLeft(_, _)
closeLeft(cs, old) ==
    IF DOMAIN old = {} THEN cs
    ELSE LET p == CHOOSE x \in DOMAIN old : TRUE
         IN  closeLeft(close(cs, old[p]), MapDelete(old, p))

\* Set that keeps the getters left in the old map instead of closing them
SetKeepsOld(getters, cs, list, ok) ==
    LET st == SetLoop([old |-> getters, temp |-> EmptyMap, ring |-> RingNew,
                       conns |-> cs, dials |-> 0, failed |-> {}],
                      list, ok, 1)
    IN  [grpcGetters |-> [a \in (DOMAIN st.temp) \cup (DOMAIN st.old) |->
                             IF a \in DOMAIN st.temp THEN st.temp[a] ELSE st.old[a]],
         peers |-> st.ring,
         conns |-> st.conns,
         dials |-> st.dials,
         failed |-> st.failed]

\* Set that drops the getters left in the old map without closing them
SetNoClose(getters, cs, list, ok) ==
    LET st == SetLoop([old |-> getters, temp |-> EmptyMap, ring |-> RingNew,
                       conns |-> cs, dials |-> 0, failed |-> {}],
                      list, ok, 1)
    IN  [grpcGetters |-> st.temp,
         peers |-> st.ring,
         conns |-> st.conns,
         dials |-> st.dials,
         failed |-> st.failed]

\* the pool after Set(list...)
Set(getters, cs, list, ok) ==
    LET st == SetLoop([old |-> getters, temp |-> EmptyMap, ring |-> RingNew,
                       conns |-> cs, dials |-> 0, failed |-> {}],
                      list, ok, 1)
    IN  [grpcGetters |-> st.temp,
         peers |-> st.ring,
         conns |-> closeLeft(st.conns, st.old),
         dials |-> st.dials,
         failed |-> st.failed]

(***************************************************************************)
(* GRPCPool.AddPeers and GRPCPool.RemovePeers                              *)
(***************************************************************************)
\* AddStep that dials without looking the address up in the map
AddStepRedials(st, peer, dialOk) ==
    LET d == newGRPCGetter(st.conns, peer, dialOk)
    IN  IF d.err
        THEN [st EXCEPT !.dials = @ + 1, !.failed = @ \cup {peer}]
        ELSE [st EXCEPT !.grpcGetters = MapPut(@, peer, d.getter),
                        !.peers = RingAdd(@, peer),
                        !.conns = d.conns,
                        !.dials = @ + 1]

\* one iteration of the loop of AddPeers: the pool's own map and ring are updated
AddStep(st, peer, dialOk) ==
    IF peer \notin DOMAIN st.grpcGetters
    THEN LET d == newGRPCGetter(st.conns, peer, dialOk)
         IN  IF d.err
             THEN [st EXCEPT !.dials = @ + 1, !.failed = @ \cup {peer}]
             ELSE [st EXCEPT !.grpcGetters = MapPut(@, peer, d.getter),
                             !.peers = RingAdd(@, peer),
                             !.conns = d.conns,
                             !.dials = @ + 1]
    ELSE st

RECURSIVE AddLoop(_, _, _, _)
AddLoop(st, list, ok, i) ==
    IF i > Len(list) THEN st
    ELSE AddLoop(AddStep(st, list[i], ok[i]), list, ok, i + 1)

\* the pool after AddPeers(list), which returns the Ack and a nil error
AddPeersResult(getters, ring, cs, list, ok) ==
    AddLoop([grpcGetters |-> getters, peers |-> ring, conns |-> cs, dials |-> 0,
             failed |-> {}, err |-> FALSE],
            list, ok, 1)

\* RemoveStep that closes the getter it read without the exists test: the nil getter
\* of an absent address makes the call fail
RemoveStepUnchecked(st, peer) ==
    IF peer \in DOMAIN st.grpcGetters
    THEN [st EXCEPT !.conns = close(@, st.grpcGetters[peer]),
                    !.grpcGetters = MapDelete(@, peer)]
    ELSE [st EXCEPT !.err = TRUE]

\* RemoveStep that closes the getter and leaves its entry in the map
RemoveStepKeepsEntry(st, peer) ==
    IF peer \in DOMAIN st.grpcGetters
    THEN [st EXCEPT !.conns = close(@, st.grpcGetters[peer])]
    ELSE st

\* one iteration of the loop of RemovePeers: the ring is not written
RemoveStep(st, peer) ==
    IF peer \in DOMAIN st.grpcGetters
    THEN [st EXCEPT !.conns = close(@, st.grpcGetters[peer]),
                    !.grpcGetters = MapDelete(@, peer)]
    ELSE st

RECURSIVE RemoveLoop(_, _, _)
RemoveLoop(st, list, i) ==
    IF i > Len(list) THEN st
    ELSE RemoveLoop(RemoveStep(st, list[i]), list, i + 1)

\* the pool after RemovePeers(list), which returns the Ack and a nil error
RemovePeersResult(getters, ring, cs, list) ==
    RemoveLoop([grpcGetters |-> getters, peers |-> ring, conns |-> cs, err |-> FALSE],
               list, 1)

(***************************************************************************)
(* GRPCPool.PickPeer and GRPCPool.GetAll                                   *)
(***************************************************************************)
NoRemoteOwner == [getter |-> NilGetter, found |-> FALSE]

\* PickPeer without the comparison of the owner with self
PickPeerNoSelfCheck(me, getters, ring, key) ==
    IF RingIsEmpty(ring)
    THEN NoRemoteOwner
    ELSE [getter |-> MapIndex(getters, RingGet(ring, key)), found |-> TRUE]

PickPeerResult(me, getters, ring, key) ==
    IF RingIsEmpty(ring)
    THEN NoRemoteOwner
    ELSE LET peer == RingGet(ring, key)
         IN  IF peer # me
             THEN [getter |-> MapIndex(getters, peer), found |-> TRUE]
             ELSE NoRemoteOwner

\* the orders in which a range over the map can visit its keys
RECURSIVE Orders(_)
Orders(keys) ==
    IF keys = {} THEN {<<>>}
    ELSE UNION {{<<k>> \o rest : rest \in Orders(keys \ {k})} : k \in keys}

\* GetAll that leaves the last getter it visits out of the slice
GetAllShort(getters) ==
    {[i \in 1 .. (Len(order) - 1) |-> getters[order[i]]] : order \in Orders(DOMAIN getters)}

\* the slices GetAll can return: the values of the map, in any order of iteration
GetAllResults(getters) ==
    {[i \in 1 .. Len(order) |-> getters[order[i]]] : order \in Orders(DOMAIN getters)}

(***************************************************************************)
(* GRPCPool.Retrieve and GRPCPool.Delete, the handlers of the inbound      *)
(* calls. They resolve the group in the registry of local groups and do    *)
(* not read or write the pool, nor take gp.mu.                             *)
(***************************************************************************)
\* the groups registered in this process, and the names a request can carry
Groups == {"g1", "g2"}
GroupNames == Groups \cup {"gx"}
CacheKeys == {"k1"}

\* the errors the handlers return; NoError is the nil error
NoError == "nil"
GroupNotFound == "Unable to find group"
RetrieveFailed == "Failed to retrieve"

\* GetGroup: the group registered under the name, or nil
NilGroup == ""
GetGroup(reg, name) == IF name \in DOMAIN reg THEN name ELSE NilGroup

\* Retrieve that answers a request for an unknown group with a nil error
RetrieveAcksUnknown(reg, name, key, fetchOk) ==
    IF GetGroup(reg, name) = NilGroup
    THEN [groups |-> reg, err |-> NoError, fetched |-> FALSE]
    ELSE LET counted == [reg EXCEPT ![name].ServerRequests = @ + 1]
         IN  IF fetchOk
             THEN [groups |-> [counted EXCEPT ![name].cache = @ \cup {key}],
                   err |-> NoError, fetched |-> TRUE]
             ELSE [groups |-> counted, err |-> RetrieveFailed, fetched |-> TRUE]

\* Retrieve: group.Stats.ServerRequests.Add(1), then group.Get, which fills the
\* group's cache with the key when it succeeds
RetrieveResult(reg, name, key, fetchOk) ==
    IF GetGroup(reg, name) = NilGroup
    THEN [groups |-> reg, err |-> GroupNotFound, fetched |-> FALSE]
    ELSE LET counted == [reg EXCEPT ![name].ServerRequests = @ + 1]
         IN  IF fetchOk
             THEN [groups |-> [counted EXCEPT ![name].cache = @ \cup {key}],
                   err |-> NoError, fetched |-> TRUE]
             ELSE [groups |-> counted, err |-> RetrieveFailed, fetched |-> TRUE]

\* Delete: group.Stats.ServerRequests.Add(1), then group.localRemove(req.Key)
DeleteResult(reg, name, key) ==
    IF GetGroup(reg, name) = NilGroup
    THEN [groups |-> reg, err |-> GroupNotFound, fetched |-> FALSE]
    ELSE [groups |-> [reg EXCEPT ![name].ServerRequests = @ + 1,
                                 ![name].cache = @ \ {key}],
          err |-> NoError, fetched |-> FALSE]

(***************************************************************************)
(* NewGRPCPoolOptions. grpcPoolCreated is a package variable that is read  *)
(* and written without synchronisation, so a call is a sequence of steps   *)
(* that the steps of other calls can interleave with.                      *)
(***************************************************************************)
Callers == 1 .. MaxCallers

\* the arguments of a call: self, and opts, which can be nil
NewSelfs == {"A", "B"}
DefaultReplicas == 50
ZeroOpts == [Replicas |-> 0, PeerDialOptions |-> "nil"]
NilOpts == [isNil |-> TRUE, val |-> ZeroOpts]
OptsChoices ==
    {NilOpts,
     [isNil |-> FALSE, val |-> ZeroOpts],
     [isNil |-> FALSE, val |-> [Replicas |-> 3, PeerDialOptions |-> "custom"]]}

NotCalled == [pc |-> "idle", self |-> "", opts |-> NilOpts, later |-> FALSE, pool |-> 0]

\* the test of line 50 that never finds the flag set
GuardNever(created) == "checked"

\* the test of line 50: panic when the flag is set
Guard(created) == IF created THEN "panicked" ELSE "checked"

\* the values a read of grpcPoolCreated can give: the value in memory, and, when the
\* call did not start after the calls that wrote the flag were over, also the value
\* from before the write
FlagReads(created, later) == {created} \cup (IF later THEN {} ELSE {FALSE})

\* lines 56 to 73: the pool of a call, with the defaults of its options
NewPool(me, opts) ==
    LET given == IF opts.isNil THEN ZeroOpts ELSE opts.val
    IN  [self |-> me,
         Replicas |-> IF given.Replicas = 0 THEN DefaultReplicas ELSE given.Replicas,
         PeerDialOptions |-> IF given.PeerDialOptions = "nil"
                             THEN "insecure" ELSE given.PeerDialOptions,
         grpcGetters |-> EmptyMap,
         peers |-> RingNew]

(***************************************************************************)
(* gp.mu and the goroutines that take it. The calls of the pool are        *)
(* sequences of steps here: a membership call of the writer, and PickPeer  *)
(* and GetAll calls of the readers, who then use the getters they were     *)
(* given without holding the lock.                                         *)
(***************************************************************************)
\* who holds gp.mu: nobody, the goroutine that changes the membership, or a goroutine
\* that calls PickPeer and GetAll
Free == "nobody"
WriterProc == "writer"
Readers == {"reader"}

\* gp.mu.Lock() that does not wait for the lock to be free
CanLockAlways(m) == TRUE

\* gp.mu.Lock() returns when nobody holds the lock
CanLock(m) == m = Free

\* list and ok are the peers the loop of the call has yet to visit, and their dials
IdleWriter == [pc |-> "idle", op |-> "None", list |-> <<>>, ok |-> <<>>,
               temp |-> EmptyMap, n |-> 0]

IdleReader == [pc |-> "idle", peer |-> NoPeer, ring |-> RingNew, getters |-> EmptyMap,
               getter |-> NilGetter, found |-> FALSE, res |-> <<>>]

(***************************************************************************)
(* The state, and the calls as actions.                                    *)
(***************************************************************************)
\* the reply to the last inbound Retrieve or Delete
NoReply == [op |-> "None", group |-> NilGroup, key |-> "", err |-> NoError,
            fetched |-> FALSE]

\* the last call that changed the membership; for SetPeers, what it was given
NoCall == [op |-> "New", list |-> <<>>, down |-> {}]

\* the dials of one call: those of the addresses in down fail
DialOk(list, down) == [i \in 1 .. Len(list) |-> list[i] \notin down]

\* the pool gp that NewGRPCPoolOptions returned: an empty ring and an empty map of
\* getters; no inbound request has been served
InitPool ==
    /\ self \in Selfs
    /\ grpcGetters = EmptyMap
    /\ peers = RingNew
    /\ conns = <<>>
    /\ last = NoCall
    /\ groups = [g \in Groups |-> [ServerRequests |-> 0, cache |-> {}]]
    /\ retrieves = [g \in Groups |-> 0]
    /\ reply = NoReply
    /\ mu = Free
    /\ writer = IdleWriter
    /\ readers = [r \in Readers |-> IdleReader]
    /\ committed = [peers |-> RingNew, grpcGetters |-> EmptyMap]

\* the one call of NewGRPCPoolOptions of the process has returned
Init ==
    /\ InitPool
    /\ grpcPoolCreated = TRUE
    /\ calls = [c \in Callers |-> NotCalled]
    /\ pools = <<>>
    /\ portPicker = <<>>
    /\ peerServers = <<>>

\* Set, and the handler of the SetPeers call: gp.Set(peers.PeerAddr...), then the Ack
SetPeers ==
    \E list \in PeerLists : \E down \in SUBSET (ToSet(list) \cap Flaky) :
        \E r \in {Set(grpcGetters, conns, list, DialOk(list, down))} :
            /\ Len(r.conns) <= MaxConns
            /\ grpcGetters' = r.grpcGetters
            /\ peers' = r.peers
            /\ conns' = r.conns
            /\ last' = [op |-> "SetPeers", list |-> list, down |-> down]
            /\ UNCHANGED <<self, serveVars, newVars, lockVars>>

AddPeers ==
    \E list \in PeerLists : \E down \in SUBSET (ToSet(list) \cap Flaky) :
        \E r \in {AddPeersResult(grpcGetters, peers, conns, list, DialOk(list, down))} :
            /\ Len(r.conns) <= MaxConns
            /\ grpcGetters' = r.grpcGetters
            /\ peers' = r.peers
            /\ conns' = r.conns
            /\ last' = [NoCall EXCEPT !.op = "AddPeers"]
            /\ UNCHANGED <<self, serveVars, newVars, lockVars>>

RemovePeers ==
    \E list \in PeerLists :
        \E r \in {RemovePeersResult(grpcGetters, peers, conns, list)} :
            /\ grpcGetters' = r.grpcGetters
            /\ peers' = r.peers
            /\ conns' = r.conns
            /\ last' = [NoCall EXCEPT !.op = "RemovePeers"]
            /\ UNCHANGED <<self, serveVars, newVars, lockVars>>

\* PickPeer and GetAll read the pool under the lock and write nothing
PickPeer ==
    \E key \in Keys :
        \E r \in {PickPeerResult(self, grpcGetters, peers, key)} :
            /\ r.found \in BOOLEAN
            /\ UNCHANGED vars

GetAll ==
    \E res \in GetAllResults(grpcGetters) :
        /\ Len(res) = Cardinality(DOMAIN grpcGetters)
        /\ UNCHANGED vars

Next == SetPeers \/ AddPeers \/ RemovePeers \/ PickPeer \/ GetAll

Spec == Init /\ [][Next]_vars

\* the inbound Retrieve and Delete calls; retrieves counts, for each registered
\* group, the Retrieve calls that named it
Retrieve ==
    \E name \in GroupNames : \E key \in CacheKeys : \E fetchOk \in BOOLEAN :
        \E r \in {RetrieveResult(groups, name, key, fetchOk)} :
            /\ \A g \in DOMAIN r.groups : r.groups[g].ServerRequests <= MaxRequests
            /\ groups' = r.groups
            /\ retrieves' = IF name \in DOMAIN groups
                            THEN [retrieves EXCEPT ![name] = @ + 1]
                            ELSE retrieves
            /\ reply' = [op |-> "Retrieve", group |-> name, key |-> key,
                         err |-> r.err, fetched |-> r.fetched]
            /\ UNCHANGED <<poolVars, newVars, lockVars>>

Delete ==
    \E name \in GroupNames : \E key \in CacheKeys :
        \E r \in {DeleteResult(groups, name, key)} :
            /\ \A g \in DOMAIN r.groups : r.groups[g].ServerRequests <= MaxRequests
            /\ groups' = r.groups
            /\ UNCHANGED retrieves
            /\ reply' = [op |-> "Delete", group |-> name, key |-> key,
                         err |-> r.err, fetched |-> r.fetched]
            /\ UNCHANGED <<poolVars, newVars, lockVars>>

\* the pool serving inbound requests while peers are added to it
NextServe == Retrieve \/ Delete \/ AddPeers

SpecServe == Init /\ [][NextServe]_vars

\* a goroutine calls NewGRPCPoolOptions(self, server, opts); the call is a later call
\* when the flag is set and no other call is running at the time it starts
NewStart(c) ==
    /\ calls[c].pc = "idle"
    /\ \E me \in NewSelfs : \E opts \in OptsChoices :
          calls' = [calls EXCEPT ![c] =
                       [pc |-> "started", self |-> me, opts |-> opts,
                        later |-> /\ grpcPoolCreated
                                  /\ \A d \in Callers :
                                        calls[d].pc \in {"idle", "returned", "panicked"},
                        pool |-> 0]]
    /\ UNCHANGED <<grpcPoolCreated, pools, portPicker, peerServers, poolVars, serveVars, lockVars>>

\* lines 50 to 52: if grpcPoolCreated { panic(...) }
NewCheck(c) ==
    /\ calls[c].pc = "started"
    /\ \E seen \in FlagReads(grpcPoolCreated, calls[c].later) :
          calls' = [calls EXCEPT ![c].pc = Guard(seen)]
    /\ UNCHANGED <<grpcPoolCreated, pools, portPicker, peerServers, poolVars, serveVars, lockVars>>

\* line 54: grpcPoolCreated = true
NewMark(c) ==
    /\ calls[c].pc = "checked"
    /\ grpcPoolCreated' = TRUE
    /\ calls' = [calls EXCEPT ![c].pc = "marked"]
    /\ UNCHANGED <<pools, portPicker, peerServers, poolVars, serveVars, lockVars>>

\* lines 56 to 73: the pool is built
NewBuild(c) ==
    /\ calls[c].pc = "marked"
    /\ pools' = Append(pools, NewPool(calls[c].self, calls[c].opts))
    /\ calls' = [calls EXCEPT ![c].pc = "built", ![c].pool = Len(pools) + 1]
    /\ UNCHANGED <<grpcPoolCreated, portPicker, peerServers, poolVars, serveVars, lockVars>>

\* lines 74 to 76: the pool is registered as the peer picker and as the peer server,
\* and returned
NewRegister(c) ==
    /\ calls[c].pc = "built"
    /\ portPicker' = Append(portPicker, calls[c].pool)
    /\ peerServers' = Append(peerServers, calls[c].pool)
    /\ calls' = [calls EXCEPT ![c].pc = "returned"]
    /\ UNCHANGED <<grpcPoolCreated, pools, poolVars, serveVars, lockVars>>

\* the process before any call of NewGRPCPoolOptions; the variables of gp are not used
InitNew ==
    /\ InitPool
    /\ grpcPoolCreated = FALSE
    /\ calls = [c \in Callers |-> NotCalled]
    /\ pools = <<>>
    /\ portPicker = <<>>
    /\ peerServers = <<>>

NextNew ==
    \E c \in Callers :
        NewStart(c) \/ NewCheck(c) \/ NewMark(c) \/ NewBuild(c) \/ NewRegister(c)

SpecNew == InitNew /\ [][NextNew]_vars

(***************************************************************************)
(* The calls of the pool step by step, under gp.mu.                        *)
(***************************************************************************)
\* what the steps of the writer and of the readers leave alone
LockFrame == UNCHANGED <<self, last, serveVars, newVars>>

\* line 80: Set(list...) takes the lock
SetLock ==
    /\ writer.pc = "idle"
    /\ writer.n < MaxCalls
    /\ CanLock(mu)
    /\ \E list \in PeerLists : \E down \in SUBSET (ToSet(list) \cap Flaky) :
          /\ Len(Set(grpcGetters, conns, list, DialOk(list, down)).conns) <= MaxConns
          /\ writer' = [pc |-> "setLocked", op |-> "Set", list |-> list,
                        ok |-> DialOk(list, down), temp |-> EmptyMap,
                        n |-> writer.n + 1]
    /\ mu' = WriterProc
    /\ UNCHANGED <<grpcGetters, peers, conns, readers, committed>>
    /\ LockFrame

\* lines 82 and 83: gp.peers is a new ring, tempGetters a new map
SetNewRing ==
    /\ writer.pc = "setLocked"
    /\ peers' = RingNew
    /\ writer' = [writer EXCEPT !.pc = "setLoop", !.temp = EmptyMap]
    /\ UNCHANGED <<grpcGetters, conns, mu, readers, committed>>
    /\ LockFrame

\* lines 84 to 98: one iteration of the loop over the peers
SetIter ==
    /\ writer.pc = "setLoop"
    /\ writer.list # <<>>
    /\ LET st == SetStep([old |-> grpcGetters, temp |-> writer.temp, ring |-> peers,
                          conns |-> conns, dials |-> 0, failed |-> {}],
                         Head(writer.list), Head(writer.ok))
       IN  /\ grpcGetters' = st.old
           /\ peers' = st.ring
           /\ conns' = st.conns
           /\ writer' = [writer EXCEPT !.temp = st.temp, !.list = Tail(@),
                                       !.ok = Tail(@)]
    /\ UNCHANGED <<mu, readers, committed>>
    /\ LockFrame

\* lines 100 to 103: the getters left in gp.grpcGetters are closed and deleted
SetCloseOld ==
    /\ writer.pc = "setLoop"
    /\ writer.list = <<>>
    /\ conns' = closeLeft(conns, grpcGetters)
    /\ grpcGetters' = EmptyMap
    /\ writer' = [writer EXCEPT !.pc = "setSwap"]
    /\ UNCHANGED <<peers, mu, readers, committed>>
    /\ LockFrame

\* line 105: gp.grpcGetters = tempGetters
SetSwap ==
    /\ writer.pc = "setSwap"
    /\ grpcGetters' = writer.temp
    /\ writer' = [writer EXCEPT !.pc = "unlock", !.temp = EmptyMap]
    /\ UNCHANGED <<peers, conns, mu, readers, committed>>
    /\ LockFrame

\* line 182: RemovePeers(list) takes the lock
RemoveLock ==
    /\ writer.pc = "idle"
    /\ writer.n < MaxCalls
    /\ CanLock(mu)
    /\ \E list \in PeerLists :
          writer' = [pc |-> "removeLoop", op |-> "RemovePeers", list |-> list,
                     ok |-> <<>>, temp |-> EmptyMap, n |-> writer.n + 1]
    /\ mu' = WriterProc
    /\ UNCHANGED <<grpcGetters, peers, conns, readers, committed>>
    /\ LockFrame

\* lines 184 to 190: one iteration of the loop of RemovePeers
RemoveIter ==
    /\ writer.pc = "removeLoop"
    /\ writer.list # <<>>
    /\ LET st == RemoveStep([grpcGetters |-> grpcGetters, peers |-> peers,
                             conns |-> conns, err |-> FALSE],
                            Head(writer.list))
       IN  /\ grpcGetters' = st.grpcGetters
           /\ peers' = st.peers
           /\ conns' = st.conns
    /\ writer' = [writer EXCEPT !.list = Tail(@)]
    /\ UNCHANGED <<mu, readers, committed>>
    /\ LockFrame

\* line 191: RemovePeers leaves its loop and returns
RemoveReturn ==
    /\ writer.pc = "removeLoop"
    /\ writer.list = <<>>
    /\ writer' = [writer EXCEPT !.pc = "unlock"]
    /\ UNCHANGED <<grpcGetters, peers, conns, mu, readers, committed>>
    /\ LockFrame

\* the deferred gp.mu.Unlock() of Set and of RemovePeers: the membership change ends
WriterUnlock ==
    /\ writer.pc = "unlock"
    /\ mu' = Free
    /\ committed' = [peers |-> peers, grpcGetters |-> grpcGetters]
    /\ writer' = [IdleWriter EXCEPT !.n = writer.n]
    /\ UNCHANGED <<grpcGetters, peers, conns, readers>>
    /\ LockFrame

\* what the steps of a reader leave alone
ReaderFrame == UNCHANGED <<grpcGetters, peers, conns, writer, committed>>

\* line 123: PickPeer(key) takes the lock
PickLock(r) ==
    /\ readers[r].pc = "idle"
    /\ CanLock(mu)
    /\ mu' = r
    /\ readers' = [readers EXCEPT ![r].pc = "pickLocked"]
    /\ ReaderFrame /\ LockFrame

\* lines 126 to 130, and 133: the ring is read: gp.peers.IsEmpty(), gp.peers.Get(key)
PickRing(r) ==
    /\ readers[r].pc = "pickLocked"
    /\ \E key \in Keys :
          LET owner == RingGet(peers, key)
          IN  readers' = [readers EXCEPT
                  ![r].ring = peers,
                  ![r].peer = owner,
                  ![r].pc = IF RingIsEmpty(peers) \/ owner = self
                            THEN "pickDone" ELSE "pickOwner"]
    /\ UNCHANGED mu
    /\ ReaderFrame /\ LockFrame

\* line 131: the map is read: return gp.grpcGetters[peer], true
PickMap(r) ==
    /\ readers[r].pc = "pickOwner"
    /\ readers' = [readers EXCEPT
            ![r].getters = grpcGetters,
            ![r].getter = MapIndex(grpcGetters, readers[r].peer),
            ![r].found = TRUE,
            ![r].pc = "pickDone"]
    /\ UNCHANGED mu
    /\ ReaderFrame /\ LockFrame

\* the deferred gp.mu.Unlock() of PickPeer: the caller has the getter
PickUnlock(r) ==
    /\ readers[r].pc = "pickDone"
    /\ mu' = Free
    /\ readers' = [readers EXCEPT
            ![r] = [IdleReader EXCEPT !.pc = "picked",
                                      !.getter = readers[r].getter,
                                      !.found = readers[r].found]]
    /\ ReaderFrame /\ LockFrame

\* line 110: GetAll() takes the lock
GetAllLock(r) ==
    /\ readers[r].pc = "idle"
    /\ CanLock(mu)
    /\ mu' = r
    /\ readers' = [readers EXCEPT ![r].pc = "allLocked"]
    /\ ReaderFrame /\ LockFrame

\* lines 113 to 118: the getters of the map are copied into a new slice
GetAllCopy(r) ==
    /\ readers[r].pc = "allLocked"
    /\ \E res \in GetAllResults(grpcGetters) :
          readers' = [readers EXCEPT ![r].getters = grpcGetters,
                                     ![r].res = res,
                                     ![r].pc = "allDone"]
    /\ UNCHANGED mu
    /\ ReaderFrame /\ LockFrame

\* the deferred gp.mu.Unlock() of GetAll: the caller has the slice
GetAllUnlock(r) ==
    /\ readers[r].pc = "allDone"
    /\ mu' = Free
    /\ readers' = [readers EXCEPT
            ![r] = [IdleReader EXCEPT !.pc = "holding", !.res = readers[r].res]]
    /\ ReaderFrame /\ LockFrame

\* grpcGetter.Get or grpcGetter.Remove is called on the getter PickPeer returned, or on
\* a getter of the slice GetAll returned, the last use of the slice: the remote call
\* is in flight
CallStart(r) ==
    /\ \/ /\ readers[r].pc = "picked"
          /\ readers[r].found /\ readers[r].getter # NilGetter
          /\ readers' = [readers EXCEPT ![r].pc = "inflight"]
       \/ /\ readers[r].pc = "holding"
          /\ \E j \in 1 .. Len(readers[r].res) :
                readers' = [readers EXCEPT ![r].pc = "inflight",
                                           ![r].getter = readers[r].res[j],
                                           ![r].res = <<>>]
    /\ UNCHANGED mu
    /\ ReaderFrame /\ LockFrame

\* the remote call returns, or the caller makes none; the caller is done with
\* what the pool gave it
CallDone(r) ==
    /\ readers[r].pc \in {"picked", "holding", "inflight"}
    /\ readers' = [readers EXCEPT ![r] = IdleReader]
    /\ UNCHANGED mu
    /\ ReaderFrame /\ LockFrame

NextLock ==
    \/ SetLock \/ SetNewRing \/ SetIter \/ SetCloseOld \/ SetSwap
    \/ RemoveLock \/ RemoveIter \/ RemoveReturn \/ WriterUnlock
    \/ \E r \in Readers :
          \/ PickLock(r) \/ PickRing(r) \/ PickMap(r) \/ PickUnlock(r)
          \/ GetAllLock(r) \/ GetAllCopy(r) \/ GetAllUnlock(r)
          \/ CallStart(r) \/ CallDone(r)

SpecLock == Init /\ [][NextLock]_vars

(***************************************************************************)
(* The claims.                                                             *)
(***************************************************************************)
\* every address of the last SetPeers call was reachable
FullSet(call) == call.op = "SetPeers" /\ call.down = {}

\* C1: between calls, the addresses that are keys of the map of getters are exactly
\* the addresses present in the ring.
C1_MapMatchesRing == DOMAIN grpcGetters = RingAddrs(peers)

\* C2: for every key, a PickPeer that reports found returns a non-nil getter, the one
\* registered in the map under the ring owner's address; when the ring owner is not
\* self and has no entry in the map, PickPeer reports no remote owner.
C2_FoundIsRegistered ==
    \A key \in Keys :
        LET r == PickPeerResult(self, grpcGetters, peers, key)
            owner == RingGet(peers, key)
        IN  /\ r.found => /\ r.getter # NilGetter
                          /\ owner \in DOMAIN grpcGetters
                          /\ r.getter = grpcGetters[owner]
            /\ (owner # self /\ owner \notin DOMAIN grpcGetters) => r = NoRemoteOwner

\* C3: after Set(P) with every address of P reachable, from any pool state, GetAll
\* returns exactly one connection per address of P and none for another address, and
\* the ring is non-empty exactly when P is non-empty.
C3_SetGivesExactlyP ==
    FullSet(last) =>
        /\ \A res \in GetAllResults(grpcGetters) :
              /\ \A a \in ToSet(last.list) :
                    Cardinality({i \in 1 .. Len(res) : conns[res[i]].address = a}) = 1
              /\ \A i \in 1 .. Len(res) : conns[res[i]].address \in ToSet(last.list)
        /\ (~RingIsEmpty(peers)) <=> (last.list # <<>>)

C3_witness ==
    /\ FullSet(last)
    /\ last.list = <<"C", "D">>
    /\ Len(conns) = 3
    /\ conns[1].closed
    /\ \E res \in GetAllResults(grpcGetters) : Len(res) = 2

\* C4: a second Set(P) right after a Set(P) whose addresses are all reachable dials
\* nothing, closes nothing and leaves every address bound to the same connection; and
\* any Set(Q) carries forward, unchanged, the getter of an address that was present
\* before the call and is in Q.
C4_SetReusesGetters ==
    [][/\ (FullSet(last) /\ FullSet(last') /\ last'.list = last.list)
            => (conns' = conns /\ grpcGetters' = grpcGetters)
       /\ last'.op = "SetPeers"
            => \A a \in (DOMAIN grpcGetters) \cap ToSet(last'.list) :
                  a \in DOMAIN grpcGetters' /\ grpcGetters'[a] = grpcGetters[a]]_vars

C6_NeverSelf ==
    \A key \in Keys :
        LET r == PickPeerResult(self, grpcGetters, peers, key)
        IN  /\ RingIsEmpty(peers) => r = NoRemoteOwner
            /\ RingGet(peers, key) = self => r = NoRemoteOwner
            /\ r.getter # NilGetter => conns[r.getter].address # self

C6_witness ==
    /\ self \in DOMAIN grpcGetters
    /\ \E key \in Keys : RingGet(peers, key) = self
    /\ \E key \in Keys : PickPeerResult(self, grpcGetters, peers, key).found

\* the pool of self = "A" right after Set("A", "B", "C"); B and C are reachable
AfterSetABC == self = "A" /\ last.op = "SetPeers" /\ last.list = <<"A", "B", "C">>

\* C7 as stated: after Set("A", "B", "C") in the pool of A, PickPeer reports found for
\* every key, with the connection of B or C.
C7_AlwaysFound ==
    AfterSetABC =>
        \A key \in Keys :
            LET r == PickPeerResult(self, grpcGetters, peers, key)
            IN  /\ r.found
                /\ r.getter # NilGetter
                /\ conns[r.getter].address \in {"B", "C"}

\* C7, amended: after Set("A", "B", "C") in the pool of A, PickPeer never returns the
\* connection of A: for a key the ring gives to B or C it reports found with the open
\* connection of that owner, and for a key the ring gives to A, which is in the ring
\* whenever it has a getter in the map, it reports no remote owner.
C7_OwnerDecides ==
    AfterSetABC =>
        /\ RingAddrs(peers) = DOMAIN grpcGetters
        /\ {"B", "C"} \subseteq RingAddrs(peers)
        /\ \E key \in Keys : PickPeerResult(self, grpcGetters, peers, key).found
        /\ \A key \in Keys :
              LET r == PickPeerResult(self, grpcGetters, peers, key)
                  owner == RingGet(peers, key)
              IN  IF owner = "A"
                  THEN r = NoRemoteOwner
                  ELSE /\ owner \in {"B", "C"}
                       /\ r.found
                       /\ r.getter = grpcGetters[owner]
                       /\ conns[r.getter] = [address |-> owner, closed |-> FALSE]

C7_witness ==
    /\ AfterSetABC
    /\ last.down = {}
    /\ \E key \in Keys : PickPeerResult(self, grpcGetters, peers, key) = NoRemoteOwner
    /\ \E key \in Keys : PickPeerResult(self, grpcGetters, peers, key).found

\* C8: RemovePeers closes the connection of every address it removes from the map,
\* and afterwards the address is absent from the ring too, so that PickPeer selects
\* it for no key.
C8_RemovedLeavesRing ==
    [][last'.op = "RemovePeers"
            => \A a \in (DOMAIN grpcGetters) \ (DOMAIN grpcGetters') :
                  /\ conns'[grpcGetters[a]].closed
                  /\ a \notin RingAddrs(peers')
                  /\ \A key \in Keys : RingGet(peers', key) # a]_vars

\* C9: AddPeers([x]) with x absent from the map and reachable adds the one entry x,
\* bound to a new open connection and present in the ring, and leaves every other
\* entry and every existing connection as it was; for any list, no address already
\* present is dialed again and no peer outside the list changes.
C9_AddPeersFrame ==
    /\ \A x \in Addrs \ DOMAIN grpcGetters :
          \A r \in {AddPeersResult(grpcGetters, peers, conns, <<x>>, <<TRUE>>)} :
              /\ DOMAIN r.grpcGetters = (DOMAIN grpcGetters) \cup {x}
              /\ r.grpcGetters[x] = Len(conns) + 1
              /\ r.conns = Append(conns, [address |-> x, closed |-> FALSE])
              /\ RingAddrs(r.peers) = RingAddrs(peers) \cup {x}
              /\ \A a \in DOMAIN grpcGetters : r.grpcGetters[a] = grpcGetters[a]
              /\ r.err = FALSE
    /\ \A list \in PeerLists : \A down \in SUBSET (ToSet(list) \cap Flaky) :
          \A r \in {AddPeersResult(grpcGetters, peers, conns, list, DialOk(list, down))} :
              /\ \A a \in DOMAIN grpcGetters :
                    a \in DOMAIN r.grpcGetters /\ r.grpcGetters[a] = grpcGetters[a]
              /\ SubSeq(r.conns, 1, Len(conns)) = conns
              /\ \A id \in (Len(conns) + 1) .. Len(r.conns) :
                    /\ r.conns[id].address \in ToSet(list) \ DOMAIN grpcGetters
                    /\ r.grpcGetters[r.conns[id].address] = id
              /\ DOMAIN r.grpcGetters \subseteq (DOMAIN grpcGetters) \cup ToSet(list)

C9_witness ==
    /\ last.op = "AddPeers"
    /\ Cardinality(DOMAIN grpcGetters) >= 2
    /\ Len(conns) < MaxConns
    /\ Addrs \ (DOMAIN grpcGetters \cup Flaky) # {}

\* C10: RemovePeers([x]) with x absent from the map returns the Ack and no error,
\* closes no connection and leaves the map and the ring as they were.
C10_RemoveAbsentIsNoOp ==
    \A list \in PeerLists :
        ToSet(list) \cap DOMAIN grpcGetters = {}
            => RemovePeersResult(grpcGetters, peers, conns, list)
                   = [grpcGetters |-> grpcGetters, peers |-> peers, conns |-> conns,
                      err |-> FALSE]

\* a RemovePeers call has left a pool that holds getters and has never closed one
C10_witness ==
    /\ last.op = "RemovePeers"
    /\ DOMAIN grpcGetters # {}
    /\ Addrs \ DOMAIN grpcGetters # {}
    /\ \A id \in 1 .. Len(conns) : ~conns[id].closed

\* C11 as stated: in Set and in AddPeers, for any list and any dials that fail, an
\* address whose dial failed is absent from the map and from the ring after the call,
\* every address of the list whose dial cannot fail is present in both, and AddPeers
\* returns no error.
C11_FailedDialIsAbsent ==
    \A list \in PeerLists : \A down \in SUBSET (ToSet(list) \cap Flaky) :
        LET ok == DialOk(list, down)
            s == Set(grpcGetters, conns, list, ok)
            a == AddPeersResult(grpcGetters, peers, conns, list, ok)
        IN  /\ \A x \in s.failed :
                  x \notin DOMAIN s.grpcGetters /\ x \notin RingAddrs(s.peers)
            /\ \A x \in a.failed :
                  x \notin DOMAIN a.grpcGetters /\ x \notin RingAddrs(a.peers)
            /\ \A x \in ToSet(list) \ down :
                  /\ x \in DOMAIN s.grpcGetters /\ x \in RingAddrs(s.peers)
                  /\ x \in DOMAIN a.grpcGetters /\ x \in RingAddrs(a.peers)
            /\ a.err = FALSE

\* C17 as stated: between calls, every connection ever opened is held in the map or
\* has been closed, and no two open connections have the same address.
C17_NoLeakNoDuplicate ==
    /\ \A id \in 1 .. Len(conns) : conns[id].closed \/ id \in Range(grpcGetters)
    /\ \A i, j \in 1 .. Len(conns) :
          (~conns[i].closed /\ ~conns[j].closed /\ conns[i].address = conns[j].address)
              => i = j

\* C19: between calls, every getter held in the map is a connection on which close
\* has not been called; and a connection that a call closes is not in the map that
\* the call leaves.
C19_HeldIsOpen ==
    /\ [](\A a \in DOMAIN grpcGetters :
              /\ grpcGetters[a] \in 1 .. Len(conns)
              /\ ~conns[grpcGetters[a]].closed)
    /\ [][\A id \in 1 .. Len(conns) :
              (~conns[id].closed /\ conns'[id].closed)
                  => id \notin Range(grpcGetters')]_vars

\* a RemovePeers call closed a connection and left others in the map
C19_witness ==
    /\ last.op = "RemovePeers"
    /\ \E id \in 1 .. Len(conns) : conns[id].closed
    /\ Cardinality(DOMAIN grpcGetters) >= 2

\* C13 as stated: the server-request counter of each registered group equals the
\* number of Retrieve calls that named the group; a Delete adds nothing.
C13_CounterCountsRetrieves ==
    \A g \in DOMAIN groups : groups[g].ServerRequests = retrieves[g]

\* C14: a Retrieve or a Delete that names a group that is not registered fails with
\* the group-not-found error, delegates no fetch, and leaves every counter and every
\* cache of the registry as they were; the step of such a call changes neither the
\* registry nor the ring, the map and the connections of the pool.
C14_UnknownGroupNoEffect ==
    /\ [](\A name \in GroupNames \ DOMAIN groups : \A key \in CacheKeys :
              /\ \A fetchOk \in BOOLEAN :
                    RetrieveResult(groups, name, key, fetchOk)
                        = [groups |-> groups, err |-> GroupNotFound, fetched |-> FALSE]
              /\ DeleteResult(groups, name, key)
                    = [groups |-> groups, err |-> GroupNotFound, fetched |-> FALSE])
    /\ [][((Retrieve \/ Delete) /\ reply'.group \notin DOMAIN groups)
              => /\ reply'.err = GroupNotFound
                 /\ ~reply'.fetched
                 /\ UNCHANGED <<groups, retrieves, grpcGetters, peers, conns>>]_vars

\* a request for an unknown group was answered by a pool that has peers and groups
\* that have served requests
C14_witness ==
    /\ reply.group \notin DOMAIN groups
    /\ reply.op = "Delete"
    /\ reply.err = GroupNotFound
    /\ \E g \in DOMAIN groups : groups[g].ServerRequests > 0 /\ groups[g].cache # {}
    /\ DOMAIN grpcGetters # {}

\* the calls that went past the test of the flag
PastGuard == {c \in Callers : calls[c].pc \in {"checked", "marked", "built", "returned"}}

\* C15: the pool a call builds has an empty ring and an empty map; a call that finds
\* the flag not set goes on to build a pool; and a later call, one that starts when
\* the flag is set and the calls before it are over, panics at the test of the flag,
\* in a step that leaves the flag, the pools and the registered pickers and servers
\* as they were, and it never builds or registers a pool.
C15_SecondCallPanics ==
    /\ [](/\ \A i \in 1 .. Len(pools) :
                pools[i].grpcGetters = EmptyMap /\ RingIsEmpty(pools[i].peers)
          /\ \A c \in Callers :
                calls[c].pc = "panicked"
                    => /\ grpcPoolCreated
                       /\ calls[c].pool = 0
                       /\ c \notin {d \in Callers : calls[d].pool \in Range(portPicker)}
          /\ \A c \in Callers : calls[c].later => calls[c].pc \in {"started", "panicked"})
    /\ [][\A c \in Callers :
              (calls[c].pc = "started" /\ calls'[c].pc # "started")
                  => /\ (~grpcPoolCreated) => calls'[c].pc = "checked"
                     /\ calls[c].later
                            => /\ calls'[c].pc = "panicked"
                               /\ UNCHANGED <<grpcPoolCreated, pools, portPicker,
                                              peerServers>>]_vars

\* a call has returned a pool and a later call has panicked
C15_witness ==
    /\ Len(pools) = 1
    /\ portPicker = <<1>>
    /\ \E c \in Callers : calls[c].pc = "returned" /\ calls[c].pool = 1
    /\ \E c \in Callers : calls[c].pc = "panicked" /\ calls[c].later

\* C20 as stated: of the calls of NewGRPCPoolOptions that run concurrently, at most
\* one goes past the test of the flag, builds a pool, registers it and returns it;
\* every other call panics at the test.
C20_OnlyOneConstructs ==
    /\ Cardinality(PastGuard) <= 1
    /\ Len(pools) <= 1
    /\ Len(portPicker) <= 1

\* the positions of a reader at which it holds gp.mu
ReaderCS == {"pickLocked", "pickOwner", "pickDone", "allLocked", "allDone"}

\* C12: a writer inside Set or RemovePeers, from its Lock to its Unlock and while it
\* dials, excludes every reader from its critical section, so no PickPeer or GetAll
\* completes meanwhile; the ring and the map that one PickPeer or GetAll reads are
\* the ring and the map as the last completed membership change left them, both
\* together, and what PickPeer returns is what it returns for that ring and map.
C12_SetIsAtomic ==
    /\ (mu = WriterProc) <=> (writer.pc # "idle")
    /\ \A r \in Readers : (mu = r) <=> (readers[r].pc \in ReaderCS)
    /\ writer.pc # "idle" => \A r \in Readers : readers[r].pc \notin ReaderCS
    /\ writer.pc = "idle" => committed = [peers |-> peers, grpcGetters |-> grpcGetters]
    /\ \A r \in Readers :
          /\ readers[r].pc \in {"pickOwner", "pickDone"}
                => readers[r].ring = committed.peers
          /\ (readers[r].pc = "allDone" \/ (readers[r].pc = "pickDone" /\ readers[r].found))
                => readers[r].getters = committed.grpcGetters
          /\ readers[r].pc = "pickDone"
                => \E key \in Keys :
                      PickPeerResult(self, committed.grpcGetters, committed.peers, key)
                          = [getter |-> readers[r].getter, found |-> readers[r].found]

\* Set is between its loop and its swap, with a new ring and a map that is neither the
\* old nor the new one, while a caller uses a getter it was given before
C12_witness ==
    /\ writer.op = "Set"
    /\ writer.pc = "setLoop"
    /\ ~RingIsEmpty(peers)
    /\ peers # committed.peers
    /\ grpcGetters # committed.grpcGetters
    /\ grpcGetters # EmptyMap
    /\ writer.temp # EmptyMap
    /\ \E r \in Readers : readers[r].pc = "inflight"

C18_NoUseAfterClose ==
    \A r \in Readers :
        readers[r].pc = "inflight" => ~conns[readers[r].getter].closed

====
